---- MODULE Spec2Model ----
(***************************************************************************)
(* straky-graph: the board algebra and the game loop of                    *)
(* src/straky/board.py and the canonical-map / game-graph builder of       *)
(* src/straky/graph.py.                                                    *)
(*                                                                         *)
(* A configuration (a Python tuple of N*N cells, row-major, values 0, 1,   *)
(* 2) is a TLA+ tuple of length N*N.  Python indexes from 0 and TLA+ from  *)
(* 1: cell s[i] of the code is s[i + 1] here, written At(s, i).            *)
(***************************************************************************)
EXTENDS Integers, Sequences, FiniteSets, TLC

\* Board.N, the side of the board (Board.__init__), fixed per instance.
N == 2

\* self.N**2, the number of cells.
NN == N * N

RECURSIVE Pow(_, _)
\* b ** e of Python, for e >= 0.
Pow(b, e) == IF e = 0 THEN 1 ELSE b * Pow(b, e - 1)

\* s[i] with Python's 0-based index.
At(s, i) == s[i + 1]

\* s[a:b], Python's half-open slice with 0 <= a, b <= len(s).
Slice(s, a, b) == SubSeq(s, a + 1, b)

\* Python's order on tuples: element-wise, a proper prefix first.
TupleLess(a, b) ==
    \E k \in 1 .. (Len(a) + 1) :
        /\ \A j \in 1 .. (k - 1) : j <= Len(b) /\ a[j] = b[j]
        /\ k <= Len(b)
        /\ (k = Len(a) + 1 \/ a[k] < b[k])

\* sorted(S) for a set S of tuples: the ascending list of its members.
RECURSIVE Sorted(_)
Sorted(S) ==
    IF S = {} THEN << >>
    ELSE LET m == CHOOSE x \in S : \A y \in S \ {x} : TupleLess(x, y)
         IN  << m >> \o Sorted(S \ {m})

\* Board.empty_state
empty_state == [p \in 1 .. NN |-> 0]

\* itertools.product(range(3), repeat=N**2): element number i (from 0) is
\* the N*N base-3 digits of i, most significant first.
product(i) == [p \in 1 .. NN |-> (i \div Pow(3, NN - p)) % 3]

\* The full configuration space, the range of Board.random_state.
AllStates == { product(i) : i \in 0 .. (Pow(3, NN) - 1) }

(***************************************************************************)
(* Board: the four geometric transforms.  Each generator of the code is    *)
(* two nested loops whose body reads s[col*N+row]; output position q       *)
(* (0-based) determines the loop indices.                                  *)
(***************************************************************************)

\* for row in range(N) for col in range(N-1, -1, -1)
rotate_board_left(s) ==
    [p \in 1 .. NN |->
        LET q == p - 1
            row == q \div N
            col == (N - 1) - (q % N)
        IN  At(s, col * N + row)]

\* for row in range(N-1, -1, -1) for col in range(N)
rotate_board_right(s) ==
    [p \in 1 .. NN |->
        LET q == p - 1
            row == (N - 1) - (q \div N)
            col == q % N
        IN  At(s, col * N + row)]

\* for col in range(N) for row in range(N-1, -1, -1)
reflect_board_vertically(s) ==
    [p \in 1 .. NN |->
        LET q == p - 1
            col == q \div N
            row == (N - 1) - (q % N)
        IN  At(s, col * N + row)]

\* for col in range(N-1, -1, -1) for row in range(N)
reflect_board_horizontally(s) ==
    [p \in 1 .. NN |->
        LET q == p - 1
            col == (N - 1) - (q \div N)
            row == q % N
        IN  At(s, col * N + row)]

\* A set of states whose mirror is never rotated.
equivalent_set_unrotated_mirror(s) ==
    LET s_ == reflect_board_vertically(s)
        r1 == rotate_board_left(s)
        r2 == rotate_board_left(r1)
        r3 == rotate_board_left(r2)
    IN  {s, s_, r1, r2, r3}

\* The set `states` of generate_equivalent_states before it is sorted: s,
\* its mirror, and three successive rotate_board_left of each.
equivalent_set(s) ==
    LET s_ == reflect_board_vertically(s)
        r1 == rotate_board_left(s)
        r2 == rotate_board_left(r1)
        r3 == rotate_board_left(r2)
        m1 == rotate_board_left(s_)
        m2 == rotate_board_left(m1)
        m3 == rotate_board_left(m2)
    IN  {s, s_, r1, r2, r3, m1, m2, m3}

\* Board.generate_equivalent_states: the sorted list of the set.
generate_equivalent_states(s) == Sorted(equivalent_set(s))

(***************************************************************************)
(* Board: the seven moves.                                                 *)
(***************************************************************************)

\* A place that asserts nothing.
place_asserts_nothing(s, col, row) == TRUE

\* The assertion of Board.place: the target cell is empty.
place_asserts(s, col, row) == At(s, N * row + col) = 0

\* Board.place: the value returned when the assertion s[N*row+col] == 0
\* passes.
place(s, col, row, color) ==
    [p \in 1 .. Len(s) |-> IF (p - 1) # N * row + col THEN s[p] ELSE color]

\* Board.flip_row: (-c % 3) on the cells with i // N == row.
flip_row(s, row) ==
    [p \in 1 .. Len(s) |-> IF (p - 1) \div N = row THEN (0 - s[p]) % 3 ELSE s[p]]

\* A flip that moves every cell of the column to the next value.
flip_column_cycle(s, col) ==
    [p \in 1 .. Len(s) |-> IF (p - 1) % N = col THEN (s[p] + 1) % 3 ELSE s[p]]

\* Board.flip_column: (-c % 3) on the cells with i % N == col.
flip_column(s, col) ==
    [p \in 1 .. Len(s) |-> IF (p - 1) % N = col THEN (0 - s[p]) % 3 ELSE s[p]]

\* An insert that overwrites the left cell of the row and shifts nothing.
insert_left_unshifted(s, row, color) ==
    [p \in 1 .. Len(s) |-> IF p - 1 = N * row THEN color ELSE s[p]]

\* Board.insert_left
insert_left(s, row, color) ==
    Slice(s, 0, N * row)
        \o << color >> \o Slice(s, N * row, N * (row + 1) - 1)
        \o Slice(s, N * (row + 1), Len(s))

\* Board.insert_right
insert_right(s, row, color) ==
    Slice(s, 0, N * row)
        \o Slice(s, N * row + 1, N * (row + 1)) \o << color >>
        \o Slice(s, N * (row + 1), Len(s))

\* Board.insert_top
insert_top(s, col, color) ==
    [p \in 1 .. Len(s) |->
        LET i == p - 1
        IN  IF i % N # col THEN s[p]
            ELSE IF i < N THEN color
            ELSE At(s, i - N)]

\* Board.insert_bottom
insert_bottom(s, col, color) ==
    [p \in 1 .. Len(s) |->
        LET i == p - 1
        IN  IF i % N # col THEN s[p]
            ELSE IF i >= N * (N - 1) THEN color
            ELSE At(s, i + N)]

\* Winners that are looked for in the rows only.
get_winners_rows(s) ==
    { At(s, row * N) : row \in
        { r \in 0 .. (N - 1) :
            /\ At(s, r * N) # 0
            /\ \A i \in (r * N + 1) .. ((r + 1) * N - 1) :
                  At(s, i) = At(s, r * N) } }

\* Winners that stop at the first full line: never more than one colour.
get_winners_first(s) ==
    LET found == get_winners_rows(s)
    IN  IF found = {} THEN {} ELSE { CHOOSE v \in found : \A w \in found : v <= w }

\* Board.get_winners: the colours v # 0 that fill a whole row, then those
\* that fill a whole column.
get_winners(s) ==
    LET rows == { At(s, row * N) : row \in
                    { r \in 0 .. (N - 1) :
                        /\ At(s, r * N) # 0
                        /\ \A i \in (r * N + 1) .. ((r + 1) * N - 1) :
                              At(s, i) = At(s, r * N) } }
        cols == { At(s, col) : col \in
                    { c \in 0 .. (N - 1) :
                        /\ At(s, c) # 0
                        /\ \A i \in 1 .. (N - 1) :
                              At(s, c + i * N) = At(s, c) } }
    IN  rows \cup cols

\* The iteration order of a set of colours (small ints hash to themselves).
RECURSIVE ColorSeq(_)
ColorSeq(colors) ==
    IF colors = {} THEN << >>
    ELSE LET m == CHOOSE x \in colors : \A y \in colors : x <= y
         IN  << m >> \o ColorSeq(colors \ {m})

\* self.Moves[move](s, *args) for a move (kind, *args).
apply_move(s, move) ==
    CASE move[1] = "p"  -> place(s, move[2], move[3], move[4])
      [] move[1] = "fr" -> flip_row(s, move[2])
      [] move[1] = "fc" -> flip_column(s, move[2])
      [] move[1] = "il" -> insert_left(s, move[2], move[3])
      [] move[1] = "ir" -> insert_right(s, move[2], move[3])
      [] move[1] = "it" -> insert_top(s, move[2], move[3])
      [] move[1] = "ib" -> insert_bottom(s, move[2], move[3])

\* A generator that skips no cell.
is_empty_cell_any(s, m) == TRUE

\* The generator's test of a cell before it places there: cells that are
\* not empty are skipped (continue).
is_empty_cell(s, m) == At(s, N * m[3] + m[2]) = 0

\* The (move, s_next) pairs one move kind yields, in the order of the
\* code's loops: itertools.product(range(N), range(N), colors) filtered to
\* the empty cells for "p", range(N) for the flips,
\* itertools.product(range(N), colors) for the inserts.
moves_of_kind(s, colors, kind) ==
    LET cs == ColorSeq(colors)
        nc == Len(cs)
        cells == [k \in 1 .. (N * N * nc) |->
                    << "p", (k - 1) \div (N * nc), ((k - 1) \div nc) % N,
                       cs[((k - 1) % nc) + 1] >>]
        empties == SelectSeq(cells, LAMBDA m : is_empty_cell(s, m))
        lines == [k \in 1 .. N |-> << kind, k - 1 >>]
        inserts == [k \in 1 .. (N * nc) |->
                    << kind, (k - 1) \div nc, cs[((k - 1) % nc) + 1] >>]
        args == IF kind = "p" THEN empties
                ELSE IF kind \in {"fr", "fc"} THEN lines
                ELSE inserts
    IN  [k \in 1 .. Len(args) |-> << args[k], apply_move(s, args[k]) >>]

\* The seven move kinds, in one of the orders a process iterates the
\* frozenset in (string hashing fixes the order per run).  The moves are
\* distinct dict keys and the frontier is a set: what build_graph leaves
\* does not depend on the order.
AllMoves == << "p", "fr", "fc", "il", "ir", "it", "ib" >>

\* The default colours of generate_possible_moves.
AllColors == {1, 2}

RECURSIVE generate_possible_moves(_, _, _)
\* Board.generate_possible_moves for valid move kinds: the list of the
\* (move, s_next) pairs the generator yields, kind after kind.
generate_possible_moves(s, colors, moves) ==
    IF moves = << >> THEN << >>
    ELSE moves_of_kind(s, colors, Head(moves))
            \o generate_possible_moves(s, colors, Tail(moves))

(***************************************************************************)
(* Text: the canonical-map file is a list of lines, a line a list of       *)
(* one-character strings.                                                  *)
(***************************************************************************)

\* The decimal digit characters, by value.
DigitChars == << "0", "1", "2", "3", "4", "5", "6", "7", "8", "9" >>

\* The value of a digit character (10 for any other character).
DigitValue(c) ==
    IF \E d \in 1 .. 10 : DigitChars[d] = c
    THEN (CHOOSE d \in 1 .. 10 : DigitChars[d] = c) - 1
    ELSE 10

\* The characters str.strip() and int() drop at both ends.
Whitespace == {" ", "\n"}

RECURSIVE str_nat(_)
\* str(n) for n >= 0
str_nat(n) ==
    IF n < 10 THEN << DigitChars[n + 1] >>
    ELSE str_nat(n \div 10) \o << DigitChars[(n % 10) + 1] >>

\* str(n) of an int
str(n) == IF n < 0 THEN << "-" >> \o str_nat(0 - n) ELSE str_nat(n)

\* "".join(str(c) for c in k): the digits of a configuration as text.
join_digits(k) == [p \in 1 .. Len(k) |-> DigitChars[k[p] + 1]]

RECURSIVE strip(_)
\* text.strip(): the text without leading and trailing whitespace.
strip(text) ==
    IF text = << >> THEN text
    ELSE IF Head(text) \in Whitespace THEN strip(Tail(text))
    ELSE IF text[Len(text)] \in Whitespace
         THEN strip(SubSeq(text, 1, Len(text) - 1))
    ELSE text

RECURSIVE digits_value(_, _, _)
\* The value of a digit string in a base, most significant digit first,
\* on top of the value acc of the digits already read.
digits_value(text, base, acc) ==
    IF text = << >> THEN acc
    ELSE digits_value(Tail(text), base, acc * base + DigitValue(Head(text)))

\* int() on the digits left of a text once whitespace and sign are off:
\* ok is FALSE where Python raises ValueError (no digits, a character that
\* is no digit of the base), else val is the integer.
int_digits(body, base, sign) ==
    IF body # << >> /\ \A p \in 1 .. Len(body) : DigitValue(body[p]) < base
    THEN [ok |-> TRUE, val |-> sign * digits_value(body, base, 0)]
    ELSE [ok |-> FALSE, val |-> 0]

\* int() on a stripped text: one leading sign is accepted.
int_signed(t, base) ==
    IF t # << >> /\ Head(t) \in {"-", "+"}
    THEN int_digits(Tail(t), base, IF Head(t) = "-" THEN 0 - 1 ELSE 1)
    ELSE int_digits(t, base, 1)

\* int(text, base): whitespace around the number is accepted.
int(text, base) == int_signed(strip(text), base)

RECURSIVE split(_, _)
\* text.split(sep) for a one-character separator: the list of the pieces
\* between separators (empty pieces kept).
split(text, sep) ==
    IF \A p \in 1 .. Len(text) : text[p] # sep THEN << text >>
    ELSE LET p == CHOOSE q \in 1 .. Len(text) :
                    text[q] = sep /\ \A r \in 1 .. (q - 1) : text[r] # sep
         IN  << SubSeq(text, 1, p - 1) >>
                \o split(SubSeq(text, p + 1, Len(text)), sep)

RECURSIVE base_digits(_, _)
\* The first loop of number_to_base for n > 0: the digits of n, least
\* significant first.
base_digits(n, b) ==
    IF n = 0 THEN << >> ELSE << n % b >> \o base_digits(n \div b, b)

\* number_to_base never returns for n < 0: n //= b floors, so n reaches -1
\* and stays there while digits grows.
number_to_base_diverges(n) == n < 0

\* Digits that are reversed without the padding loop.
number_to_base_unpadded(n, b, length) ==
    LET digits == base_digits(n, b)
    IN  [p \in 1 .. Len(digits) |-> digits[Len(digits) + 1 - p]]

\* The second loop of number_to_base: zeros appended up to length.
pad_digits(digits, length) ==
    digits \o [k \in 1 .. (length - Len(digits)) |-> 0]

\* digits[::-1]
reversed(digits) ==
    [p \in 1 .. Len(digits) |-> digits[Len(digits) + 1 - p]]

\* number_to_base(n, b, length) for n >= 0: the digits, padded with zeros
\* up to length, then reversed.
number_to_base(n, b, length) == reversed(pad_digits(base_digits(n, b), length))

(***************************************************************************)
(* GameGraph: the state of one instance over one Board(N), and the file    *)
(* system it saves to and loads from.                                      *)
(***************************************************************************)
VARIABLES
    NormalizedStates,  \* self.NormalizedStates: dict state -> normalized state
    NormalizedKeys,    \* the keys of NormalizedStates in insertion order
    Graph,             \* self.Graph: dict state -> entry (None or a move dict)
    Terminals,         \* self.Terminals: dict state -> set of winners
    unset,             \* the attributes among the three dicts that are None
    frontier,          \* build_graph's local set `frontier`
    i,                 \* prepare_normalized_states' enumerate index
    fs,                \* the file system: file name -> list of lines
    pc,                \* where the caller of the instance is
    popped,            \* history: the states frontier.pop() has returned
    repopped,          \* history: some state was returned by pop() twice
    given,             \* the configuration a caller of the Board starts from
                       \* (transforms) or passed to its last call (moves)
    state,             \* the configuration the caller holds now
    equivalents,       \* the list generate_equivalent_states returned last
    call,              \* the caller's last call of a move or of the generator
    Color,             \* play_game: p.Color of players[0] and players[1], 0 for None
    game_s,            \* play_game's local s
    s_prev,            \* play_game's local s_prev
    player_i,          \* play_game's local player_i
    game_winners,      \* play_game's local winners
    valid_moves,       \* play_game's local valid_moves: dict move -> s_next
    game_move,         \* play_game's local move, as make_move returned it last
    game_pc,           \* where play_game is
    s_before_prev      \* history: the value s_prev had before its last assignment

\* The variables of the GameGraph instance and its file system.
graph_vars == << NormalizedStates, NormalizedKeys, Graph, Terminals, unset,
                 frontier, i, fs, pc, popped, repopped >>

\* The variables of a caller of the Board's transforms and moves.
board_vars == << given, state, equivalents, call >>

\* The variables of a call of play_game.
game_vars == << Color, game_s, s_prev, player_i, game_winners, valid_moves,
                game_move, game_pc, s_before_prev >>

vars == << graph_vars, board_vars, game_vars >>

\* The file name the map is saved under.
fname == "normalized.txt"

\* d[k] = v on a dict d.
DictSet(d, k, v) == (k :> v) @@ d

\* The insertion order of the keys of d after d[k] = v.
KeysSet(keys, d, k) == IF k \in DOMAIN d THEN keys ELSE Append(keys, k)

\* Graph[s] = {} in the place of None.
EmptyMovesEntry == [isNone |-> FALSE, moves |-> << >>]

\* Graph[s] = None
NoneEntry == [isNone |-> TRUE]

\* Graph[s] = a dict move -> state
MovesEntry(d) == [isNone |-> FALSE, moves |-> d]

\* A lookup with dict.get: None (here the empty tuple) for a missing key.
normalize_get(m, s) == IF s \notin DOMAIN m THEN << >> ELSE m[s]

\* GameGraph.normalize_state on the dict m.
normalize(m, s) == IF s \notin DOMAIN m THEN s ELSE m[s]

\* GameGraph.normalize_state
normalize_state(s) == normalize(NormalizedStates, s)

\* GameGraph.__init__
new_GameGraph ==
    /\ NormalizedStates = << >>
    /\ NormalizedKeys = << >>
    /\ Graph = << >>
    /\ Terminals = << >>
    /\ unset = {"NormalizedStates", "Graph", "Terminals"}
    /\ frontier = {}
    /\ i = 0
    /\ pc = "idle"
    /\ popped = {}
    /\ repopped = FALSE

\* No call made yet.
no_call == [op |-> "", args |-> << >>, raised |-> "", result |-> << >>]

\* A caller of the Board that holds the configuration s.
holds(s) ==
    /\ given = s
    /\ state = s
    /\ equivalents = << >>
    /\ call = no_call

\* No play_game is running: players[0] and players[1] have the colours c.
no_game(c) ==
    /\ Color = c
    /\ game_s = << >>
    /\ s_prev = << >>
    /\ player_i = 0
    /\ game_winners = {}
    /\ valid_moves = << >>
    /\ game_move = << >>
    /\ game_pc = "none"
    /\ s_before_prev = << >>

\* Players made without a colour: Color is None.
NoColors == [p \in 1 .. 2 |-> 0]

\* A new GameGraph over a new Board, no file written yet, whose caller
\* holds the empty board.
Init == new_GameGraph /\ fs = << >> /\ holds(empty_state) /\ no_game(NoColors)

(***************************************************************************)
(* prepare_normalized_states                                               *)
(***************************************************************************)

\* A class of which only the first member, eqs[0], is entered.
assign_class_first_only(dk, eqs, k) ==
    [map  |-> DictSet(dk.map, eqs[1], eqs[1]),
     keys |-> KeysSet(dk.keys, dk.map, eqs[1])]

RECURSIVE assign_class_last(_, _, _)
\* A class that is given its last member, eqs[-1], as its normalized state.
assign_class_last(dk, eqs, k) ==
    IF k > Len(eqs) THEN dk
    ELSE assign_class_last([map  |-> DictSet(dk.map, eqs[k], eqs[Len(eqs)]),
                            keys |-> KeysSet(dk.keys, dk.map, eqs[k])],
                           eqs, k + 1)

RECURSIVE assign_class(_, _, _)
\* for s_ in eqs: self.NormalizedStates[s_] = eqs[0], from position k of
\* eqs on; dk is the dict with its key order.
assign_class(dk, eqs, k) ==
    IF k > Len(eqs) THEN dk
    ELSE assign_class([map  |-> DictSet(dk.map, eqs[k], eqs[1]),
                       keys |-> KeysSet(dk.keys, dk.map, eqs[k])],
                      eqs, k + 1)

\* One pass of the loop body for the state s (lines 18-22).
prepare_body(dk, s) ==
    IF s \in DOMAIN dk.map THEN dk
    ELSE assign_class(dk, generate_equivalent_states(s), 1)

\* The call: self.NormalizedStates = {} and the loop is entered.
PrepareStart ==
    /\ pc = "idle"
    /\ NormalizedStates' = << >>
    /\ NormalizedKeys' = << >>
    /\ unset' = unset \ {"NormalizedStates"}
    /\ i' = 0
    /\ pc' = "prepare"
    /\ UNCHANGED << board_vars, game_vars >>
    /\ UNCHANGED << Graph, Terminals, frontier, fs, popped, repopped >>

\* One iteration of the loop over itertools.product.
PrepareStep ==
    /\ pc = "prepare"
    /\ i < Pow(3, NN)
    /\ LET dk == prepare_body([map |-> NormalizedStates, keys |-> NormalizedKeys],
                              product(i))
       IN  /\ NormalizedStates' = dk.map
           /\ NormalizedKeys' = dk.keys
    /\ i' = i + 1
    /\ UNCHANGED << board_vars, game_vars >>
    /\ UNCHANGED << Graph, Terminals, unset, frontier, fs, pc, popped, repopped >>

\* The product is exhausted: the call returns.
PrepareReturn ==
    /\ pc = "prepare"
    /\ i = Pow(3, NN)
    /\ pc' = "idle"
    /\ UNCHANGED << board_vars, game_vars >>
    /\ UNCHANGED << NormalizedStates, NormalizedKeys, Graph, Terminals, unset,
                    frontier, i, fs, popped, repopped >>

(***************************************************************************)
(* save_normalized_states / load_normalized_states                         *)
(***************************************************************************)

\* What print("{} {}".format(int(k, 3), int(v, 3)), file=f) writes.
format_line(k, v) ==
    str(int(join_digits(k), 3).val) \o << " " >>
        \o str(int(join_digits(v), 3).val) \o << "\n" >>

\* The lines written for the items of the dict d, in the order of its keys;
\* an item with k == v is skipped.
save_lines(d, keys) ==
    LET kept == SelectSeq(keys, LAMBDA k : k # d[k])
    IN  [p \in 1 .. Len(kept) |-> format_line(kept[p], d[kept[p]])]

\* save_normalized_states(fname); the assertion wants a non-empty dict.
SaveNormalizedStates ==
    /\ pc = "idle"
    /\ "NormalizedStates" \notin unset
    /\ NormalizedStates # << >>
    /\ fs' = DictSet(fs, fname, save_lines(NormalizedStates, NormalizedKeys))
    /\ UNCHANGED << board_vars, game_vars >>
    /\ UNCHANGED << NormalizedStates, NormalizedKeys, Graph, Terminals, unset,
                    frontier, i, pc, popped, repopped >>

\* An exception (or a call that never returns) in the loop body.
raises(what) == [raised |-> what, key |-> << >>, val |-> << >>]

\* Line 41 for the integers k and v of a line, as int() gave them: the
\* right-hand side of the assignment is evaluated before the key.
load_item(k, v) ==
    IF ~v.ok THEN raises("ValueError")
    ELSE IF number_to_base_diverges(v.val) THEN raises("diverges")
    ELSE IF ~k.ok THEN raises("ValueError")
    ELSE IF number_to_base_diverges(k.val) THEN raises("diverges")
    ELSE [raised |-> "",
          key |-> number_to_base(k.val, 3, NN),
          val |-> number_to_base(v.val, 3, NN)]

\* Lines 40-41 for the pieces of a line: k, v = pieces raises ValueError
\* unless there are two.
load_pieces(pieces) ==
    IF Len(pieces) # 2 THEN raises("ValueError")
    ELSE load_item(int(pieces[1], 10), int(pieces[2], 10))

\* One pass of the loop body of load_normalized_states on a line: raised is
\* "" when the item (key, val) is stored, "ValueError" when the line does
\* not unpack into two pieces or a piece is no integer, and "diverges" when
\* number_to_base does not return.
load_line(line) == load_pieces(split(line, " "))

\* The number of the first pass that raises, or one past the last pass.
first_raise(done) ==
    IF \A p \in 1 .. Len(done) : done[p].raised = "" THEN Len(done) + 1
    ELSE CHOOSE p \in 1 .. Len(done) :
            done[p].raised # "" /\ \A q \in 1 .. (p - 1) : done[q].raised = ""

\* The last pass before `stop` that stores the key.
last_store(done, stop, key) ==
    CHOOSE p \in 1 .. (stop - 1) :
        done[p].key = key /\ \A q \in (p + 1) .. (stop - 1) : done[q].key # key

\* The passes before `stop` that store a key for the first time.
first_stores(done, stop) ==
    SelectSeq([p \in 1 .. (stop - 1) |-> p],
              LAMBDA p : \A q \in 1 .. (p - 1) : done[q].key # done[p].key)

\* The keys in the order of their first store.
keys_of(done, firsts) == [j \in 1 .. Len(firsts) |-> done[firsts[j]].key]

\* The dict after the passes before `stop`: the lines before the first one
\* that raises are stored, a later line for the same key replacing an
\* earlier one.
load_stored(done, stop) ==
    [map    |-> [key \in { done[p].key : p \in 1 .. (stop - 1) } |->
                    done[last_store(done, stop, key)].val],
     keys   |-> keys_of(done, first_stores(done, stop)),
     raised |-> IF stop > Len(done) THEN "" ELSE done[stop].raised]

\* The passes of the loop, one per line.
load_done(done) == load_stored(done, first_raise(done))

\* The loop of load_normalized_states over the lines of the file, into the
\* empty dict.
load_lines(lines) == load_done([p \in 1 .. Len(lines) |-> load_line(lines[p])])

\* The loop's result r becomes the state; an exception leaves the caller.
loaded(r) ==
    /\ NormalizedStates' = r.map
    /\ NormalizedKeys' = r.keys
    /\ pc' = IF r.raised = "" THEN "idle" ELSE r.raised

\* load_normalized_states(fname) on a file that exists.
LoadNormalizedStates ==
    /\ pc = "idle"
    /\ fname \in DOMAIN fs
    /\ loaded(load_lines(fs[fname]))
    /\ unset' = unset \ {"NormalizedStates"}
    /\ UNCHANGED << board_vars, game_vars >>
    /\ UNCHANGED << Graph, Terminals, frontier, i, fs, popped, repopped >>

(***************************************************************************)
(* build_graph                                                             *)
(***************************************************************************)

\* An enumeration that never inserts at the bottom.
possible_moves_no_bottom(s) ==
    generate_possible_moves(s, AllColors, << "p", "fr", "fc", "il", "ir", "it" >>)

\* The call of line 69: the list of the (move, s_next) pairs of s, with
\* the default colours and move kinds.
possible_moves(s) == generate_possible_moves(s, AllColors, AllMoves)

RECURSIVE stored_edges(_, _, _)
\* The dict that line 73, self.Graph[s][move] = s_next, builds in passes
\* lo .. hi of the for loop, each s_next normalized by line 70: a later
\* pass replaces an earlier edge for the same move.  (Halving the range
\* keeps the recursion shallow.)
stored_edges(pairs, lo, hi) ==
    IF lo = hi THEN pairs[lo][1] :> normalize_state(pairs[lo][2])
    ELSE stored_edges(pairs, ((lo + hi) \div 2) + 1, hi)
            @@ stored_edges(pairs, lo, (lo + hi) \div 2)

\* A lookup that misses the state being expanded.
keys_before_expansion(G, s) == DOMAIN G

\* The keys of Graph when line 76 looks s_next up: lines 71-72 have
\* created Graph[s] in the first pass at the latest.
keys_at_lookup(G, s) == (DOMAIN G) \cup {s}

\* A frontier that is never given a state with winners.
add_unexplored_unfinished(G, F, s, pairs) ==
    F \cup { t \in { normalize_state(pairs[j][2]) : j \in 1 .. Len(pairs) } :
                t \notin (DOMAIN G) \cup {s} /\ get_winners(t) = {} }

\* A frontier that takes nothing new while it holds three states or more.
add_unexplored_while_small(G, F, s, pairs) ==
    IF Cardinality(F) >= 3 THEN F
    ELSE F \cup { t \in { normalize_state(pairs[j][2]) : j \in 1 .. Len(pairs) } :
                    t \notin (DOMAIN G) \cup {s} }

\* Lines 76-77 over all passes: the normalized targets that are no key of
\* the graph are added to the frontier F.
add_unexplored(G, F, s, pairs) ==
    F \cup { t \in { normalize_state(pairs[j][2]) : j \in 1 .. Len(pairs) } :
                t \notin keys_at_lookup(G, s) }

\* The for loop of lines 69-77 for the state s, entered with the graph G
\* and the frontier F, over the (move, s_next) pairs the generator yields;
\* a generator that yields nothing leaves both as they are.
expand_moves(G, F, s, pairs) ==
    IF pairs = << >> THEN [Graph |-> G, frontier |-> F]
    ELSE [Graph |->
            DictSet(G, s,
                    MovesEntry(stored_edges(pairs, 1, Len(pairs))
                                @@ (IF s \in DOMAIN G THEN G[s].moves ELSE << >>))),
          frontier |-> add_unexplored(G, F, s, pairs)]

\* A frontier that is read without removing the element.
pop_keeps(F, s) == F

\* frontier.pop(): the frontier without the element s it returned.
pop(F, s) == F \ {s}

\* The call up to the loop: the assertion wants a dict, the two result
\* dicts are emptied, the frontier holds the empty board.
BuildStart ==
    /\ pc = "idle"
    /\ "NormalizedStates" \notin unset
    /\ Graph' = << >>
    /\ Terminals' = << >>
    /\ unset' = unset \ {"Graph", "Terminals"}
    /\ frontier' = {empty_state}
    /\ pc' = "build"
    /\ popped' = {}
    /\ repopped' = FALSE
    /\ UNCHANGED << board_vars, game_vars >>
    /\ UNCHANGED << NormalizedStates, NormalizedKeys, i, fs >>

\* A build that records no terminal.
mark_terminal_never(T, s, found) == T

\* self.Terminals[s] = winners
mark_terminal(T, s, found) == DictSet(T, s, found)

\* One iteration of the while loop whose popped state has winners.
BuildTerminal ==
    /\ pc = "build"
    /\ \E s \in frontier :
        LET winners == get_winners(s)
        IN  /\ winners # {}
            /\ Graph' = DictSet(Graph, s, NoneEntry)
            /\ Terminals' = mark_terminal(Terminals, s, winners)
            /\ frontier' = pop(frontier, s)
            /\ popped' = popped \cup {s}
            /\ repopped' = (repopped \/ s \in popped)
    /\ UNCHANGED << board_vars, game_vars >>
    /\ UNCHANGED << NormalizedStates, NormalizedKeys, unset, i, fs, pc >>

\* The loop's result r becomes the state.
build_expanded(r) == Graph' = r.Graph /\ frontier' = r.frontier

\* One iteration of the while loop whose popped state has no winners.
BuildExpand ==
    /\ pc = "build"
    /\ \E s \in frontier :
        /\ get_winners(s) = {}
        /\ build_expanded(expand_moves(Graph, pop(frontier, s), s, possible_moves(s)))
        /\ popped' = popped \cup {s}
        /\ repopped' = (repopped \/ s \in popped)
    /\ UNCHANGED << board_vars, game_vars >>
    /\ UNCHANGED << NormalizedStates, NormalizedKeys, Terminals, unset, i, fs, pc >>

\* The frontier is empty: the loop ends and the call returns.
BuildReturn ==
    /\ pc = "build"
    /\ frontier = {}
    /\ pc' = "done"
    /\ UNCHANGED << board_vars, game_vars >>
    /\ UNCHANGED << NormalizedStates, NormalizedKeys, Graph, Terminals, unset,
                    frontier, i, fs, popped, repopped >>

\* One GameGraph whose caller prepares the canonical map and builds the
\* graph.
Next ==
    \/ PrepareStart
    \/ PrepareStep
    \/ PrepareReturn
    \/ BuildStart
    \/ BuildTerminal
    \/ BuildExpand
    \/ BuildReturn

Spec == Init /\ [][Next]_vars

(***************************************************************************)
(* The canonical map and its file: prepare, save, load.                    *)
(***************************************************************************)

\* One GameGraph whose caller prepares the canonical map, saves it and
\* loads it back.
FileNext ==
    \/ PrepareStart
    \/ PrepareStep
    \/ PrepareReturn
    \/ SaveNormalizedStates
    \/ LoadNormalizedStates

SpecFile == Init /\ [][FileNext]_vars

(***************************************************************************)
(* load_normalized_states on a file that somebody else wrote.              *)
(***************************************************************************)

\* The most lines a file has.
MaxLines == 3

\* Lines a file may hold: one that save_normalized_states writes, one with
\* the integer 3^(N*N), one piece, three pieces, a piece that is no
\* integer, a negative integer, a blank line.
SampleLines ==
    { << "5", " ", "2", "\n" >>,
      str(Pow(3, NN)) \o << " ", "2", "\n" >>,
      << "7", "\n" >>,
      << "1", " ", "2", " ", "3", "\n" >>,
      << "x", " ", "1", "\n" >>,
      << "-", "1", " ", "0", "\n" >>,
      << "\n" >> }

\* The files of up to MaxLines of these lines.
SampleFiles == UNION { [1 .. n -> SampleLines] : n \in 0 .. MaxLines }

\* A new GameGraph beside a file of that name.
LoadInit ==
    /\ new_GameGraph
    /\ \E f \in SampleFiles : fs = (fname :> f)
    /\ holds(empty_state)
    /\ no_game(NoColors)

\* The caller loads the file.
LoadNext == LoadNormalizedStates

SpecLoad == LoadInit /\ [][LoadNext]_vars

(***************************************************************************)
(* A caller of the Board's transforms on any configuration.                *)
(***************************************************************************)

\* state = self.rotate_board_left(state)
RotateLeft ==
    /\ state' = rotate_board_left(state)
    /\ UNCHANGED << given, equivalents, call >>
    /\ UNCHANGED << graph_vars, game_vars >>

\* state = self.rotate_board_right(state)
RotateRight ==
    /\ state' = rotate_board_right(state)
    /\ UNCHANGED << given, equivalents, call >>
    /\ UNCHANGED << graph_vars, game_vars >>

\* state = self.reflect_board_vertically(state)
ReflectVertically ==
    /\ state' = reflect_board_vertically(state)
    /\ UNCHANGED << given, equivalents, call >>
    /\ UNCHANGED << graph_vars, game_vars >>

\* state = self.reflect_board_horizontally(state)
ReflectHorizontally ==
    /\ state' = reflect_board_horizontally(state)
    /\ UNCHANGED << given, equivalents, call >>
    /\ UNCHANGED << graph_vars, game_vars >>

\* equivalents = self.generate_equivalent_states(state)
GenerateEquivalentStates ==
    /\ equivalents' = generate_equivalent_states(state)
    /\ UNCHANGED << given, state, call >>
    /\ UNCHANGED << graph_vars, game_vars >>

\* The caller starts from any configuration of the full space.
SymInit ==
    /\ new_GameGraph
    /\ fs = << >>
    /\ \E s \in AllStates : holds(s)
    /\ no_game(NoColors)

SymNext ==
    \/ RotateLeft
    \/ RotateRight
    \/ ReflectVertically
    \/ ReflectHorizontally
    \/ GenerateEquivalentStates

SpecSym == SymInit /\ [][SymNext]_vars

(***************************************************************************)
(* A caller of the Board's moves and of its move generator, on any         *)
(* configuration.                                                          *)
(***************************************************************************)

\* The keys of self.Moves: the move kinds the generator knows.
Moves == {"p", "fr", "fc", "il", "ir", "it", "ib"}

\* The caller calls the move op with the arguments args on the
\* configuration it holds; ok is the outcome of the move's assertion.  The
\* caller keeps the value returned, or what it held when the call raised.
move_called(op, args, ok, result) ==
    /\ given' = state
    /\ state' = IF ok THEN result ELSE state
    /\ call' = [op |-> op, args |-> args,
                raised |-> IF ok THEN "" ELSE "AssertionError",
                result |-> IF ok THEN result ELSE << >>]
    /\ UNCHANGED equivalents
    /\ UNCHANGED << graph_vars, game_vars >>

\* board.place(s, col, row, color)
Place ==
    \E col \in 0 .. (N - 1), row \in 0 .. (N - 1), color \in AllColors :
        move_called("p", << col, row, color >>, place_asserts(state, col, row),
                    place(state, col, row, color))

\* board.flip_row(s, row)
FlipRow ==
    \E row \in 0 .. (N - 1) :
        move_called("fr", << row >>, TRUE, flip_row(state, row))

\* board.flip_column(s, col)
FlipColumn ==
    \E col \in 0 .. (N - 1) :
        move_called("fc", << col >>, TRUE, flip_column(state, col))

\* board.insert_left(s, row, color)
InsertLeft ==
    \E row \in 0 .. (N - 1), color \in AllColors :
        move_called("il", << row, color >>, TRUE, insert_left(state, row, color))

\* board.insert_right(s, row, color)
InsertRight ==
    \E row \in 0 .. (N - 1), color \in AllColors :
        move_called("ir", << row, color >>, TRUE, insert_right(state, row, color))

\* board.insert_top(s, col, color)
InsertTop ==
    \E col \in 0 .. (N - 1), color \in AllColors :
        move_called("it", << col, color >>, TRUE, insert_top(state, col, color))

\* board.insert_bottom(s, col, color)
InsertBottom ==
    \E col \in 0 .. (N - 1), color \in AllColors :
        move_called("ib", << col, color >>, TRUE, insert_bottom(state, col, color))

\* The position of the first kind of moves that self.Moves does not know,
\* Len(moves) + 1 when it knows them all.
first_unknown(moves) ==
    IF \A k \in 1 .. Len(moves) : moves[k] \in Moves THEN Len(moves) + 1
    ELSE CHOOSE k \in 1 .. Len(moves) :
            /\ moves[k] \notin Moves
            /\ \A j \in 1 .. (k - 1) : moves[j] \in Moves

\* The position of the first pair whose move is a place that fails its
\* assertion on s, Len(pairs) + 1 when there is none.
first_failing(s, pairs) ==
    IF \A k \in 1 .. Len(pairs) :
          pairs[k][1][1] = "p" => place_asserts(s, pairs[k][1][2], pairs[k][1][3])
    THEN Len(pairs) + 1
    ELSE CHOOSE k \in 1 .. Len(pairs) :
            /\ pairs[k][1][1] = "p"
            /\ ~ place_asserts(s, pairs[k][1][2], pairs[k][1][3])
            /\ \A j \in 1 .. (k - 1) :
                  pairs[j][1][1] = "p"
                      => place_asserts(s, pairs[j][1][2], pairs[j][1][3])

\* What a caller that exhausts the generator gets: the pairs yielded before
\* the first raise, and the exception if there was one.
generate_record(s, colors, moves, pairs, stop) ==
    [op |-> "generate_possible_moves",
     args |-> << s, colors, moves >>,
     raised |-> IF stop <= Len(pairs) THEN "AssertionError"
                ELSE IF first_unknown(moves) <= Len(moves) THEN "ValueError"
                ELSE "",
     result |-> SubSeq(pairs, 1, stop - 1)]

\* list(board.generate_possible_moves(s, colors, moves)) with its outcome:
\* the kinds before the first unknown one are enumerated, a place on a
\* cell that is not empty raises.
generate_call(s, colors, moves) ==
    generate_record(s, colors, moves,
        generate_possible_moves(s, colors, SubSeq(moves, 1, first_unknown(moves) - 1)),
        first_failing(s,
            generate_possible_moves(s, colors, SubSeq(moves, 1, first_unknown(moves) - 1))))

\* The kind sets a caller passes, each in one iteration order: all kinds
\* (the default) in two orders, each kind alone, no kind, and a set with a
\* kind that is not a move.
KindLists ==
    { AllMoves, reversed(AllMoves), << >>, << "fc", "xx", "p" >> }
        \cup { << AllMoves[k] >> : k \in 1 .. Len(AllMoves) }

\* list(board.generate_possible_moves(s, colors, moves))
GeneratePossibleMoves ==
    \E colors \in SUBSET AllColors, moves \in KindLists :
        /\ call' = generate_call(state, colors, moves)
        /\ given' = state
        /\ UNCHANGED << state, equivalents >>
        /\ UNCHANGED << graph_vars, game_vars >>

MovesInit ==
    /\ new_GameGraph
    /\ fs = << >>
    /\ \E s \in AllStates : holds(s)
    /\ no_game(NoColors)

MovesNext ==
    \/ Place
    \/ FlipRow
    \/ FlipColumn
    \/ InsertLeft
    \/ InsertRight
    \/ InsertTop
    \/ InsertBottom
    \/ GeneratePossibleMoves

SpecMoves == MovesInit /\ [][MovesNext]_vars

(***************************************************************************)
(* play_game: two players take turns until the configuration has winners.  *)
(***************************************************************************)

\* A filter that excludes nothing.
exclude_forbidden_moves_none(state_generator, forbidden_states) == state_generator

\* Board.exclude_forbidden_moves: the pairs whose state is not forbidden.
exclude_forbidden_moves(state_generator, forbidden_states) ==
    SelectSeq(state_generator, LAMBDA pair : pair[2] \notin forbidden_states)

RECURSIVE moves_dict(_, _, _)
\* The dict comprehension {move: s_next for (move, s_next) in ...} over the
\* pairs lo .. hi: a later pair replaces an earlier one for the same move.
moves_dict(pairs, lo, hi) ==
    IF lo > hi THEN << >>
    ELSE IF lo = hi THEN pairs[lo][1] :> pairs[lo][2]
    ELSE moves_dict(pairs, ((lo + hi) \div 2) + 1, hi)
            @@ moves_dict(pairs, lo, (lo + hi) \div 2)

\* The dict of the pairs.
offered(pairs) == moves_dict(pairs, 1, Len(pairs))

\* Turns on which only places are offered.
offered_moves_places_only(s, prev, mover) ==
    offered(exclude_forbidden_moves(generate_possible_moves(s, {mover}, << "p" >>),
                                    {s, prev}))

\* Turns on which only the previous configuration is forbidden.
offered_moves_prev_only(s, prev, mover) ==
    offered(exclude_forbidden_moves(generate_possible_moves(s, {mover}, AllMoves),
                                    {prev}))

\* valid_moves of one turn: the moves enumerated for colors={player_i}
\* with every kind, without those that lead to s or to s_prev.
offered_moves(s, prev, mover) ==
    offered(exclude_forbidden_moves(generate_possible_moves(s, {mover}, AllMoves),
                                    {s, prev}))

\* if not p.Color: p.set_color(i + 1), for both players.
set_colors(presets) ==
    [p \in 1 .. 2 |-> IF presets[p] = 0 THEN p ELSE presets[p]]

\* The moves a player may return from make_move: every tuple that is a
\* move on some configuration, offered or not.
PlayerMoves ==
    { << "p", col, row, color >> :
        col \in 0 .. (N - 1), row \in 0 .. (N - 1), color \in AllColors }
    \cup { << kind, line >> : kind \in {"fr", "fc"}, line \in 0 .. (N - 1) }
    \cup { << kind, line, color >> :
            kind \in {"il", "ir", "it", "ib"},
            line \in 0 .. (N - 1), color \in AllColors }

\* board.play_game(players, s) up to the loop; s = None (here the empty
\* tuple) stands for the empty board.
PlayGame ==
    /\ game_pc = "none"
    /\ \E start \in AllStates \cup {<< >>} :
          /\ game_s' = (IF start = << >> THEN empty_state ELSE start)
          /\ s_prev' = (IF start = << >> THEN empty_state ELSE start)
          /\ s_before_prev' = (IF start = << >> THEN empty_state ELSE start)
    /\ Color' = set_colors(Color)
    /\ player_i' = 2
    /\ game_winners' = {}
    /\ game_pc' = "loop"
    /\ UNCHANGED << valid_moves, game_move >>
    /\ UNCHANGED << graph_vars, board_vars >>

\* The head of a pass of `while not winners`: the side changes and the
\* valid moves of the turn are listed.
TurnOffer ==
    /\ game_pc = "loop"
    /\ game_winners = {}
    /\ player_i' = (0 - player_i) % 3
    /\ valid_moves' = offered_moves(game_s, s_prev, (0 - player_i) % 3)
    /\ game_pc' = "ask"
    /\ UNCHANGED << Color, game_s, s_prev, game_winners, game_move, s_before_prev >>
    /\ UNCHANGED << graph_vars, board_vars >>

\* make_move returns a key of valid_moves: the move is made and the pass
\* ends.
MakeMoveValid ==
    /\ game_pc = "ask"
    /\ \E answer \in PlayerMoves :
          /\ answer \in DOMAIN valid_moves
          /\ game_move' = answer
          /\ game_s' = valid_moves[answer]
          /\ game_winners' = get_winners(valid_moves[answer])
    /\ s_prev' = game_s
    /\ s_before_prev' = s_prev
    /\ game_pc' = "loop"
    /\ UNCHANGED << Color, player_i, valid_moves >>
    /\ UNCHANGED << graph_vars, board_vars >>

\* make_move returns something else: "Invalid move." and the player is
\* asked again.
MakeMoveInvalid ==
    /\ game_pc = "ask"
    /\ \E answer \in PlayerMoves :
          /\ answer \notin DOMAIN valid_moves
          /\ game_move' = answer
    /\ UNCHANGED << Color, game_s, s_prev, player_i, game_winners, valid_moves,
                    game_pc, s_before_prev >>
    /\ UNCHANGED << graph_vars, board_vars >>

\* winners is not empty: the loop ends and the result is announced.
GameOver ==
    /\ game_pc = "loop"
    /\ game_winners # {}
    /\ game_pc' = "over"
    /\ UNCHANGED << Color, game_s, s_prev, player_i, game_winners, valid_moves,
                    game_move, s_before_prev >>
    /\ UNCHANGED << graph_vars, board_vars >>

\* Two players, each made with a colour or without one.
GameInit ==
    /\ new_GameGraph
    /\ fs = << >>
    /\ holds(empty_state)
    /\ \E c \in [1 .. 2 -> {0, 1, 2}] : no_game(c)

GameNext ==
    \/ PlayGame
    \/ TurnOffer
    \/ MakeMoveValid
    \/ MakeMoveInvalid
    \/ GameOver

SpecGame == GameInit /\ [][GameNext]_vars

(***************************************************************************)
(* C1-C4: build_graph                                                      *)
(***************************************************************************)

\* The successors the generator yields for the configurations of S.
Successors(S) ==
    UNION { { possible_moves(c)[j][2] : j \in 1 .. Len(possible_moves(c)) } : c \in S }

RECURSIVE ReachFrom(_, _)
\* The configurations reachable from those of `new` by enumerated moves out
\* of configurations without winners, together with `seen`.
ReachFrom(seen, new) ==
    IF new = {} THEN seen
    ELSE ReachFrom(seen \cup new,
                   Successors({ c \in new : get_winners(c) = {} }) \ (seen \cup new))

\* The configurations reachable from the empty board through non-terminal
\* configurations, no symmetry applied.
Reachable == ReachFrom({}, {empty_state})

\* The keys of Graph.
Keys == DOMAIN Graph

\* C1: when build_graph has returned, the keys of Graph are exactly the
\* canonical forms of the configurations reachable from the empty board
\* through non-terminal configurations, every key is its own canonical
\* form, and every edge target is a key.
C1_GraphIsReachableCanonical ==
    pc = "done" =>
        /\ Keys = { normalize_state(c) : c \in Reachable }
        /\ \A k \in Keys : normalize_state(k) = k
        /\ \A s \in Keys : ~Graph[s].isNone =>
              \A move \in DOMAIN Graph[s].moves : Graph[s].moves[move] \in Keys

\* C1 witness: the build has returned with a graph that has edges between
\* distinct keys and a reachable configuration that is not its own key.
C1_Witness ==
    /\ pc = "done"
    /\ \E s \in Keys : ~Graph[s].isNone
            /\ \E move \in DOMAIN Graph[s].moves : Graph[s].moves[move] # s
    /\ \E c \in Reachable : normalize_state(c) # c

\* C2: no configuration is popped from the frontier twice, and a key of
\* Graph is never in the frontier.
C2_ExpandedOnce == ~repopped /\ frontier \cap Keys = {}

\* C2 witness: the empty board, which has moves that lead back to itself,
\* has been expanded, and a later state has been popped as well.
C2_Witness ==
    /\ pc = "build"
    /\ empty_state \in Keys
    /\ \E move \in DOMAIN Graph[empty_state].moves :
            Graph[empty_state].moves[move] = empty_state
    /\ Cardinality(popped) >= 3

\* The passes of the while loop that are still possible at most: every
\* pass takes one of them away, and there are never fewer than none.
passes_left == Pow(3, NN) - Cardinality(Keys)

C4_TerminalsAreWinners ==
    pc = "done" =>
        /\ DOMAIN Terminals \subseteq Keys
        /\ \A s \in Keys :
            /\ Graph[s].isNone <=> get_winners(s) # {}
            /\ Graph[s].isNone <=> s \in DOMAIN Terminals
            /\ s \in DOMAIN Terminals =>
                /\ Terminals[s] = get_winners(s)
                /\ Cardinality(Terminals[s]) \in {1, 2}

\* C4 witness: the finished graph has a terminal with one winner, one with
\* two, and a key with moves.
C4_Witness ==
    /\ pc = "done"
    /\ \E s \in DOMAIN Terminals : Cardinality(Terminals[s]) = 1
    /\ \E s \in DOMAIN Terminals : Cardinality(Terminals[s]) = 2
    /\ \E s \in Keys : ~Graph[s].isNone

(***************************************************************************)
(* C5-C8: the canonical map                                                *)
(***************************************************************************)

\* The mirror image of a board: every row read backwards.
Mirror(s) ==
    [p \in 1 .. NN |->
        At(s, ((p - 1) \div N) * N + (N - 1 - ((p - 1) % N)))]

\* A board turned by a quarter: cell (r, c) takes the cell (c, N-1-r).
QuarterTurn(s) ==
    [p \in 1 .. NN |->
        At(s, ((p - 1) % N) * N + (N - 1 - ((p - 1) \div N)))]

\* The 8 symmetry images of s: s, its mirror, and the 1, 2 and 3
\* quarter-turns of each.
Images(s) ==
    { s, QuarterTurn(s), QuarterTurn(QuarterTurn(s)),
      QuarterTurn(QuarterTurn(QuarterTurn(s))),
      Mirror(s), QuarterTurn(Mirror(s)), QuarterTurn(QuarterTurn(Mirror(s))),
      QuarterTurn(QuarterTurn(QuarterTurn(Mirror(s)))) }

\* a before b in the row-major, element-wise order of boards.
LexLess(a, b) ==
    \E k \in 1 .. NN : a[k] < b[k] /\ \A j \in 1 .. (k - 1) : a[j] = b[j]

\* The smallest board of a set.
Least(S) == CHOOSE x \in S : \A y \in S \ {x} : LexLess(x, y)

\* The caller has a canonical map and no call is running.
MapReady == pc = "idle" /\ "NormalizedStates" \notin unset

\* The map holds the file's entries only: some state is no key of it.
MapSparse == \E s \in AllStates : s \notin DOMAIN NormalizedStates

\* C5: with the map that prepare_normalized_states made, normalize_state
\* returns for every configuration of the full space the lexicographically
\* smallest of its 8 symmetry images.
C5_CanonicalIsLeastImage ==
    MapReady => \A s \in AllStates : normalize_state(s) = Least(Images(s))

\* C5 witness: prepare_normalized_states has returned with the full map,
\* in which a configuration with 8 distinct images is not its own form.
C5_Witness ==
    /\ MapReady
    /\ ~MapSparse
    /\ \E s \in AllStates :
            Cardinality(Images(s)) = 8 /\ normalize_state(s) # s

\* C6: canonicalization is idempotent, with the prepared map and with the
\* sparse map loaded from the file:
\* normalize_state(normalize_state(s)) = normalize_state(s).
C6_NormalizeIdempotent ==
    MapReady =>
        \A s \in AllStates :
            normalize_state(normalize_state(s)) = normalize_state(s)

\* C6 witness: the sparse map has been loaded: it has an entry whose value
\* is no key of it.
C6_Witness ==
    /\ MapReady
    /\ MapSparse
    /\ \E k \in DOMAIN NormalizedStates :
            NormalizedStates[k] # k /\ NormalizedStates[k] \notin DOMAIN NormalizedStates

\* C8: loading the file that save_normalized_states writes for the map
\* gives a map with which normalize_state returns for every configuration
\* of the full space what it returned before.
C8_SaveLoadRoundTrip ==
    [][(/\ LoadNormalizedStates
        /\ NormalizedStates # << >>
        /\ fs[fname] = save_lines(NormalizedStates, NormalizedKeys))
        => /\ pc' = "idle"
           /\ \A k \in AllStates :
                normalize(NormalizedStates', k) = normalize(NormalizedStates, k)]_vars

\* C8 witness: the saved file has been loaded, and the map has a key and a
\* value whose leading cell is Empty.
C8_Witness ==
    /\ MapReady
    /\ MapSparse
    /\ fname \in DOMAIN fs
    /\ fs[fname] = save_lines(NormalizedStates, NormalizedKeys)
    /\ \E k \in DOMAIN NormalizedStates :
            k[1] = 0 /\ NormalizedStates[k][1] = 0 /\ NormalizedStates[k] # k

(***************************************************************************)
(* C7, C10: the symmetry classes                                           *)
(***************************************************************************)

\* The members of a list.
Members(list) == { list[p] : p \in 1 .. Len(list) }

\* C7: the list generate_equivalent_states returns contains the
\* configuration it is called on, has 1, 2, 4 or 8 members, all distinct,
\* and is the list returned for every one of its members; the empty
\* board's list has one member.
C7_ClassesPartition ==
    equivalents # << >> =>
        /\ state \in Members(equivalents)
        /\ Len(equivalents) \in {1, 2, 4, 8}
        /\ Cardinality(Members(equivalents)) = Len(equivalents)
        /\ \A m \in Members(equivalents) :
                generate_equivalent_states(m) = equivalents
        /\ given = empty_state => Len(equivalents) = 1

\* C7 witness: a list of 8 members, returned for a member that is neither
\* the first of the list nor the configuration held now.
C7_Witness ==
    /\ Len(equivalents) = 8
    /\ state # given
    /\ state # equivalents[1]
    /\ given # equivalents[1]

\* C10: whatever composition of the four transforms is applied to a
\* configuration, get_winners returns the same set.
C10_WinnersSurviveSymmetry == get_winners(state) = get_winners(given)

\* C10 witness: a configuration with a winner has been rotated and
\* reflected into another one.
C10_Witness ==
    /\ get_winners(given) # {}
    /\ state # given
    /\ state = reflect_board_horizontally(rotate_board_right(given))
    /\ state # rotate_board_left(given)

(***************************************************************************)
(* C9: a malformed file                                                    *)
(***************************************************************************)

\* A line that does not parse into two integers, or holds an integer that
\* does not fit N*N base-3 digits.
Malformed(line) ==
    LET pieces == split(line, " ")
    IN  \/ Len(pieces) # 2
        \/ \E j \in 1 .. Len(pieces) :
                \/ ~int(pieces[j], 10).ok
                \/ int(pieces[j], 10).val \notin 0 .. (Pow(3, NN) - 1)

\* C9: once a file with a malformed line has been loaded, the load has
\* not returned normally (it has raised, or it has not returned at all),
\* and no key or value of the map ever has another number of cells than
\* N*N.
C9_MalformedFileFails ==
    /\ ("NormalizedStates" \notin unset
            /\ \E p \in 1 .. Len(fs[fname]) : Malformed(fs[fname][p]))
        => pc # "idle"
    /\ \A k \in DOMAIN NormalizedStates :
            Len(k) = NN /\ Len(NormalizedStates[k]) = NN

\* Some row of s holds the colour a in every cell.
FullRow(s, a) ==
    \E row \in 0 .. (N - 1) : \A col \in 0 .. (N - 1) : s[N * row + col + 1] = a

\* Some column of s holds the colour a in every cell.
FullColumn(s, a) ==
    \E col \in 0 .. (N - 1) : \A row \in 0 .. (N - 1) : s[N * row + col + 1] = a

\* C11 as stated: some configuration has a full row of one colour and a full
\* column of the other colour, and get_winners returns both colours for it.
C11_RowAgainstColumn ==
    \E s \in AllStates : \E a, b \in AllColors :
        /\ a # b
        /\ FullRow(s, a)
        /\ FullColumn(s, b)
        /\ get_winners(s) = {1, 2}

\* C11 amended: get_winners returns both colours exactly for the
\* configurations where the two colours each fill a row, or each fill a
\* column; a full row of one colour never meets a full column of the other.
C11_TwoLinesOfOneKind ==
    /\ get_winners(state) = {1, 2}
          <=> \/ FullRow(state, 1) /\ FullRow(state, 2)
              \/ FullColumn(state, 1) /\ FullColumn(state, 2)
    /\ ~ (FullRow(state, 1) /\ FullColumn(state, 2))
    /\ ~ (FullRow(state, 2) /\ FullColumn(state, 1))

\* A configuration with two winners is held after a transform.
C11_Witness ==
    /\ state # given
    /\ get_winners(state) = {1, 2}
    /\ FullRow(state, 1)
    /\ FullRow(state, 2)

(***************************************************************************)
(* C13-C17: the moves and their generator                                  *)
(***************************************************************************)

\* The cell (col, row) of the configuration s.
Cell(s, col, row) == s[N * row + col + 1]

\* The moves of the kinds in the set kinds that the rules allow on s with
\* the colours colors: a place per empty cell and colour, a flip per row
\* and per column, an insert per side, line and colour.
LegalMoves(s, colors, kinds) ==
    { m \in { << "p", col, row, color >> :
                col \in 0 .. (N - 1), row \in 0 .. (N - 1), color \in colors } :
        "p" \in kinds /\ Cell(s, m[2], m[3]) = 0 }
    \cup { << kind, line >> : kind \in kinds \cap {"fr", "fc"}, line \in 0 .. (N - 1) }
    \cup { << kind, line, color >> :
            kind \in kinds \cap {"il", "ir", "it", "ib"},
            line \in 0 .. (N - 1), color \in colors }

\* The elements of a list.
Range(f) == { f[k] : k \in DOMAIN f }

\* C13: a call of generate_possible_moves(s, colors, moves) with move kinds
\* that are all valid raises nothing and yields each legal move of those
\* kinds and colours exactly once, every place on an empty cell, every
\* pair with the result of applying its move to s.
C13_GeneratorYieldsLegalMoves ==
    (/\ call.op = "generate_possible_moves"
     /\ Range(call.args[3]) \subseteq Moves)
        => /\ call.raised = ""
           /\ { call.result[k][1] : k \in DOMAIN call.result }
                  = LegalMoves(call.args[1], call.args[2], Range(call.args[3]))
           /\ \A j, k \in DOMAIN call.result :
                  call.result[j][1] = call.result[k][1] => j = k
           /\ \A k \in DOMAIN call.result :
                  /\ call.result[k][2] = apply_move(call.args[1], call.result[k][1])
                  /\ call.result[k][1][1] = "p"
                        => Cell(call.args[1], call.result[k][1][2],
                                call.result[k][1][3]) = 0

\* The generator was called with every kind and both colours on a
\* configuration with empty and with occupied cells.
C13_Witness ==
    /\ call.op = "generate_possible_moves"
    /\ call.args[2] = AllColors
    /\ call.args[3] = AllMoves
    /\ \E p, q \in 1 .. NN : call.args[1][p] = 0 /\ call.args[1][q] # 0
    /\ \E k \in DOMAIN call.result : call.result[k][1][1] = "p"

\* C14: place(s, col, row, color) on a cell of s that is not empty fails
\* its assertion and returns nothing; on an empty cell it returns s with
\* that cell set to color and every other cell as it was.
C14_PlaceOnEmptyCellOnly ==
    call.op = "p"
        => IF Cell(given, call.args[1], call.args[2]) # 0
           THEN /\ call.raised = "AssertionError"
                /\ call.result = << >>
                /\ state = given
           ELSE /\ call.raised = ""
                /\ call.result = state
                /\ Len(state) = NN
                /\ \A col \in 0 .. (N - 1), row \in 0 .. (N - 1) :
                      Cell(state, col, row)
                          = IF col = call.args[1] /\ row = call.args[2]
                            THEN call.args[3]
                            ELSE Cell(given, col, row)

\* A place was tried on a cell that holds the other colour.
C14_Witness ==
    /\ call.op = "p"
    /\ Cell(given, call.args[1], call.args[2]) \notin {0, call.args[3]}
    /\ call.raised = "AssertionError"

\* The cell (col, row) after an insert of color at the near end of a line
\* of s: the near cell holds color, every other cell of the line holds
\* what its neighbour on the near side held (prev_col, prev_row).
Shifted(s, near, color, prev_col, prev_row) ==
    IF near THEN color ELSE Cell(s, prev_col, prev_row)

\* C15: an insert changes the selected line only: the inserted colour
\* enters at the named side, each cell of the line moves one place away
\* from it, the cell at the far end is dropped, and the cells outside the
\* line stay as they were.
C15_InsertShiftsOneLine ==
    call.op \in {"il", "ir", "it", "ib"}
        => /\ call.raised = ""
           /\ call.result = state
           /\ Len(state) = NN
           /\ \A col \in 0 .. (N - 1), row \in 0 .. (N - 1) :
                 Cell(state, col, row) =
                    CASE call.op = "il" /\ row = call.args[1] ->
                            Shifted(given, col = 0, call.args[2], col - 1, row)
                      [] call.op = "ir" /\ row = call.args[1] ->
                            Shifted(given, col = N - 1, call.args[2], col + 1, row)
                      [] call.op = "it" /\ col = call.args[1] ->
                            Shifted(given, row = 0, call.args[2], col, row - 1)
                      [] call.op = "ib" /\ col = call.args[1] ->
                            Shifted(given, row = N - 1, call.args[2], col, row + 1)
                      [] OTHER -> Cell(given, col, row)

\* insert_left pushed a row of two different cells: an occupied cell
\* moved and the cell at the right end was dropped.
C15_Witness ==
    /\ call.op = "il"
    /\ Cell(given, 0, call.args[1]) \notin {0, call.args[2]}
    /\ Cell(given, N - 1, call.args[1]) # Cell(given, N - 2, call.args[1])
    /\ Cell(state, 1, call.args[1]) = Cell(given, 0, call.args[1])

\* The other colour; Empty for Empty.
Swapped(c) == CASE c = 1 -> 2 [] c = 2 -> 1 [] OTHER -> 0

\* C16: one flip of a row or column swaps the two colours on that line,
\* leaves its empty cells empty and leaves every other cell unchanged;
\* the same flip applied again gives back the configuration before the
\* first one.
C16_FlipIsInvolution ==
    /\ [](call.op \in {"fr", "fc"}
            => /\ call.raised = ""
               /\ call.result = state
               /\ Len(state) = NN
               /\ \A col \in 0 .. (N - 1), row \in 0 .. (N - 1) :
                     Cell(state, col, row) =
                        IF \/ call.op = "fr" /\ row = call.args[1]
                           \/ call.op = "fc" /\ col = call.args[1]
                        THEN Swapped(Cell(given, col, row))
                        ELSE Cell(given, col, row))
    /\ [][(/\ call.op \in {"fr", "fc"}
           /\ call'.op = call.op
           /\ call'.args = call.args) => state' = given]_vars

\* A column with a cell of colour 2 was flipped.
C16_Witness ==
    /\ call.op = "fc"
    /\ state # given
    /\ \E row \in 0 .. (N - 1) :
          /\ Cell(state, call.args[1], row) = 1
          /\ Cell(given, call.args[1], row) = 2
    /\ flip_column(given, call.args[1]) = state

\* C17: cell (row, col) of reflect_board_vertically(s) is cell
\* (N-1-row, col) of s, and cell (row, col) of reflect_board_horizontally(s)
\* is cell (row, N-1-col) of s, for the configuration the caller holds.
C17_ReflectionsAsNamed ==
    \A row \in 0 .. (N - 1), col \in 0 .. (N - 1) :
        /\ Cell(reflect_board_vertically(state), col, row)
              = Cell(state, col, N - 1 - row)
        /\ Cell(reflect_board_horizontally(state), col, row)
              = Cell(state, N - 1 - col, row)

(***************************************************************************)
(* C18, C19: the states of a configuration during build_graph, and the     *)
(* classes of prepare_normalized_states                                    *)
(***************************************************************************)

\* The states of the traversal the configuration s is in: 1 unvisited,
\* 2 frontier, 3 expanded non-terminal (a key of Graph with a dict of
\* moves), 4 expanded terminal (a key of Graph with None, a key of
\* Terminals).
TraversalStates(s) ==
    { k \in 1 .. 4 :
        CASE k = 1 -> s \notin frontier /\ s \notin Keys
          [] k = 2 -> s \in frontier
          [] k = 3 -> /\ s \in Keys
                      /\ ~ Graph[s].isNone
                      /\ DOMAIN Graph[s].moves # {}
                      /\ s \notin DOMAIN Terminals
          [] k = 4 -> /\ s \in Keys
                      /\ Graph[s].isNone
                      /\ s \in DOMAIN Terminals }

\* C18: at the head of every pass of the build_graph loop every
\* configuration is in exactly one of the four traversal states (so the
\* frontier shares nothing with the keys of Graph, and the keys marked None
\* are exactly the keys of Terminals).
C18_OneTraversalState ==
    pc = "build" => \A s \in AllStates : Cardinality(TraversalStates(s)) = 1

\* At a loop head the four states are all taken: by the empty board
\* (expanded), a terminal, a frontier state and an unvisited one.
C18_Witness ==
    /\ pc = "build"
    /\ TraversalStates(empty_state) = {3}
    /\ \E s \in AllStates : TraversalStates(s) = {4}
    /\ \E s \in AllStates : TraversalStates(s) = {2}
    /\ \E s \in AllStates : TraversalStates(s) = {1}

\* The configurations the loop of prepare_normalized_states has reached
\* before pass k.
Enumerated(k) == { product(j) : j \in 0 .. (k - 1) }

\* C19: prepare_normalized_states leaves every configuration with a
\* canonical form, and it works out one orbit per class: in every pass of
\* its loop, a configuration that is no key of the map yet is the first
\* of its class in the enumeration, no member of the class is a key, and
\* the pass adds exactly the class; a configuration that is a key already
\* changes nothing; and no pass changes the value of a key.
C19_OneOrbitPerClass ==
    /\ []((pc = "prepare" /\ i = Pow(3, NN)) => DOMAIN NormalizedStates = AllStates)
    /\ [][(pc = "prepare" /\ i' = i + 1) =>
            /\ \A k \in DOMAIN NormalizedStates :
                  /\ k \in DOMAIN NormalizedStates'
                  /\ NormalizedStates'[k] = NormalizedStates[k]
            /\ IF product(i) \in DOMAIN NormalizedStates
               THEN NormalizedStates' = NormalizedStates
               ELSE /\ Images(product(i)) \cap DOMAIN NormalizedStates = {}
                    /\ Images(product(i)) \cap Enumerated(i) = {}
                    /\ DOMAIN NormalizedStates'
                          = DOMAIN NormalizedStates \cup Images(product(i))]_vars

\* The loop has skipped a configuration that an earlier pass gave a
\* canonical form other than itself, and has classes still to find.
C19_Witness ==
    /\ pc = "prepare"
    /\ i > 0
    /\ i < Pow(3, NN)
    /\ product(i - 1) \in DOMAIN NormalizedStates
    /\ NormalizedStates[product(i - 1)] # product(i - 1)
    /\ product(i) \notin DOMAIN NormalizedStates

(***************************************************************************)
(* C12, C20: play_game                                                     *)
(***************************************************************************)

\* C12 as stated: on every turn of play_game no offered move (and so no
\* accepted one) leads to the configuration that held before the
\* opponent's last move, nor to the configuration that held before that
\* one.
C12_NoReturnTwoMovesBack ==
    game_pc = "ask" =>
        \A m \in DOMAIN valid_moves : valid_moves[m] \notin {s_prev, s_before_prev}

\* C12 amended: on every turn of play_game no offered move leads to the
\* current configuration nor to the configuration that held before the
\* opponent's last move, and the move accepted is one of those offered.
C12_NoReturnToCurrentOrPrevious ==
    /\ [](game_pc = "ask" =>
            \A m \in DOMAIN valid_moves : valid_moves[m] \notin {game_s, s_prev})
    /\ [][(game_pc = "ask" /\ game_pc' = "loop") =>
            /\ game_move' \in DOMAIN valid_moves
            /\ game_s' = valid_moves[game_move']
            /\ game_s' \notin {game_s, s_prev}]_vars

\* A turn on which the mover has a move that would undo the opponent's
\* last move, and another that leaves the configuration as it is.
C12_Witness ==
    /\ game_pc = "ask"
    /\ s_prev # game_s
    /\ \E m \in PlayerMoves \ DOMAIN valid_moves :
          /\ m[Len(m)] = player_i
          /\ m[1] # "p"
          /\ apply_move(game_s, m) = s_prev
    /\ \E m \in PlayerMoves \ DOMAIN valid_moves :
          m[1] # "p" /\ apply_move(game_s, m) = game_s

\* The players move in turn, player 1 first: each pass of the loop gives
\* the turn to the player who did not move last.
TurnsAlternate ==
    [][(game_pc = "loop" /\ game_pc' = "ask") =>
        player_i' = (IF game_move = << >> THEN 1 ELSE 3 - player_i)]_vars

\* Every offered move that carries a colour carries the colour of the
\* player it is offered to, players[player_i - 1].Color.
OffersOwnColour ==
    game_pc = "ask" =>
        \A m \in DOMAIN valid_moves :
            m[1] \notin {"fr", "fc"} => m[Len(m)] = Color[player_i]

\* The loop goes on after a move to a configuration without winners and
\* ends after the first move to one with winners.
StopsAtFirstWinners ==
    /\ [](game_pc = "over" => get_winners(game_s) # {})
    /\ [][(game_pc = "ask" /\ game_pc' = "loop") =>
            game_winners' = get_winners(game_s')]_vars
    /\ [][(game_pc = "loop" /\ game_pc' = "ask" /\ game_move # << >>) =>
            get_winners(game_s) = {}]_vars
    /\ [][(game_pc = "loop" /\ game_winners # {}) => game_pc' = "over"]_vars

\* C20: in play_game the players move strictly in turn, player 1 first,
\* the moves offered on a turn are enumerated with the mover's own colour
\* only, and the loop stops exactly at the first configuration after a
\* move that has winners.
C20_TurnsOwnColourStop ==
    /\ TurnsAlternate
    /\ []OffersOwnColour
    /\ StopsAtFirstWinners

(***************************************************************************)
(* C21: symmetry and the moves                                             *)
(***************************************************************************)

\* The canonical forms of the successors that line 69-70 of build_graph
\* get for the configuration s.
CanonicalSuccessors(s) ==
    { normalize_state(possible_moves(s)[j][2]) : j \in 1 .. Len(possible_moves(s)) }

\* C21: with a canonical map in place, the canonical forms of the
\* successors enumerated from a configuration are the same for every
\* symmetry image of it.
C21_SuccessorsUpToSymmetry ==
    MapReady =>
        \A s \in AllStates : \A t \in Images(s) :
            CanonicalSuccessors(t) = CanonicalSuccessors(s)

\* The map is in place, and some configuration has 8 images of which one
\* has other successors than it, with a successor that is not canonical.
C21_Witness ==
    /\ MapReady
    /\ \E s \in AllStates :
          /\ Cardinality(Images(s)) = 8
          /\ \E t \in Images(s) : Successors({t}) # Successors({s})
          /\ \E c \in Successors({s}) : normalize_state(c) # c

(***************************************************************************)
(* C22, C24: the turns of play_game                                        *)
(***************************************************************************)

\* C22: play_game never gets stuck: on every turn, of a game started from
\* the empty board or from any other configuration, the valid moves left
\* after the current and the previous configuration are excluded are not
\* empty.
C22_NeverStuck ==
    game_pc = "ask" => DOMAIN valid_moves # {}

\* The third turn of a game that began on the empty board, on a
\* configuration without winners, with a move of the mover excluded
\* because it undoes the opponent's.
C22_Witness ==
    /\ game_pc = "ask"
    /\ player_i = 1
    /\ s_before_prev = empty_state
    /\ s_prev # empty_state
    /\ get_winners(game_s) = {}
    /\ \E m \in PlayerMoves \ DOMAIN valid_moves :
          /\ m[1] # "p"
          /\ m[Len(m)] = player_i
          /\ apply_move(game_s, m) = s_prev

(***************************************************************************)
(* C23: the order of the pops                                              *)
(***************************************************************************)

\* What a pass of the build_graph loop stores in Graph for the state s.
ExpandedEntry(s) ==
    IF get_winners(s) # {} THEN NoneEntry
    ELSE MovesEntry(stored_edges(possible_moves(s), 1, Len(possible_moves(s))))

\* C23: whatever the order in which frontier.pop() removes the states,
\* with the same canonical map build_graph returns with one and the same
\* Graph and Terminals: the entry of each canonical form of a
\* configuration reachable from the empty board, and the winners of those
\* that have any.
C23_PopOrderIrrelevant ==
    pc = "done" =>
        /\ Graph = [s \in { normalize_state(c) : c \in Reachable } |-> ExpandedEntry(s)]
        /\ Terminals = [s \in { k \in { normalize_state(c) : c \in Reachable } :
                                    get_winners(k) # {} } |-> get_winners(s)]

\* build_graph has returned after passes in which the frontier gave the
\* pop a choice: it popped more states than one chain of moves has.
C23_Witness ==
    /\ pc = "done"
    /\ frontier = {}
    /\ popped = Keys
    /\ Cardinality(DOMAIN Terminals) >= 2
    /\ Cardinality(Keys \ DOMAIN Terminals) >= 2

\* C24: every move accepted in play_game changes the board: no move of
\* valid_moves leaves the configuration as it is, and the move made is one
\* of them; an answer of the player that is not in valid_moves is rejected
\* and leaves the configuration, the previous configuration, the side to
\* move and the offer unchanged.
C24_AcceptedMovesChangeBoard ==
    /\ [](game_pc = "ask" =>
            \A m \in DOMAIN valid_moves :
                /\ valid_moves[m] # game_s
                /\ apply_move(game_s, m) = valid_moves[m])
    /\ [][(game_pc = "ask" /\ game_move' \in DOMAIN valid_moves) =>
            /\ game_s' = valid_moves[game_move']
            /\ game_s' # game_s
            /\ s_prev' = game_s]_vars
    /\ [][(game_pc = "ask" /\ game_move' \notin DOMAIN valid_moves) =>
            /\ game_s' = game_s
            /\ s_prev' = s_prev
            /\ player_i' = player_i
            /\ valid_moves' = valid_moves
            /\ game_winners' = game_winners
            /\ game_pc' = "ask"]_vars

\* A player has answered with a flip of a line without tiles, and is asked
\* again.
C24_Witness ==
    /\ game_pc = "ask"
    /\ game_move # << >>
    /\ game_move[1] \in {"fr", "fc"}
    /\ apply_move(game_s, game_move) = game_s
    /\ game_move \notin DOMAIN valid_moves
    /\ s_prev # game_s

====
